---- MODULE Spec2Model ----
(***************************************************************************)
(* Link shortener (axum + sqlx): the credential gate (auth.rs), the router *)
(* (main.rs) and the request handlers (route.rs) as a state machine over   *)
(* the three tables of the store and the requests in flight.               *)
(*                                                                         *)
(* Every request is an independently scheduled task.  A task runs          *)
(* atomically from one await to the next; every await is a store call      *)
(* wrapped in tokio::time::timeout.  A store call is "sent" when issued,   *)
(* "executed" once the store has run the statement, and the task resumes   *)
(* either with the statement's result or because the timeout fired.        *)
(***************************************************************************)
EXTENDS Integers, Sequences, FiniteSets, TLC

(***************************************************************************)
(* Bounds of the model.                                                    *)
(***************************************************************************)
\* Requests received over a behaviour.
MaxRequests == 3

\* Tasks that can be in flight at the same time.
Tasks == {"t1", "t2"}

\* Absent value: a missing header, a SQL NULL, an unset local.
Null == "<null>"

(***************************************************************************)
(* Unsigned 32-bit integers are kept as two 16-bit limbs <<hi, lo>>: the   *)
(* value hi * 65536 + lo.                                                  *)
(***************************************************************************)
Limb == 65536
U32Max == <<65535, 65535>>

U32Less(a, b) == a[1] < b[1] \/ (a[1] = b[1] /\ a[2] < b[2])

\* Quotient and remainder of a u32 by ten, by long division over the limbs.
U32DivTen(n) ==
    LET carry == (n[1] % 10) * Limb + n[2]
    IN  [quot |-> <<n[1] \div 10, carry \div 10>>, rem |-> carry % 10]

\* u32::to_string: the base-10 text as a sequence of ASCII codes.
RECURSIVE U32ToString(_)
U32ToString(n) ==
    LET d == U32DivTen(n)
    IN  IF d.quot = <<0, 0>>
        THEN <<48 + d.rem>>
        ELSE Append(U32ToString(d.quot), 48 + d.rem)

\* The URL-safe base64 alphabet (RFC 4648, table 2).
UrlSafeAlphabet ==
    << "A","B","C","D","E","F","G","H","I","J","K","L","M","N","O","P",
       "Q","R","S","T","U","V","W","X","Y","Z","a","b","c","d","e","f",
       "g","h","i","j","k","l","m","n","o","p","q","r","s","t","u","v",
       "w","x","y","z","0","1","2","3","4","5","6","7","8","9","-","_" >>

\* The 6-bit groups of a byte sequence, the last group zero-filled.
RECURSIVE Sextets(_)
Sextets(bytes) ==
    IF Len(bytes) = 0 THEN << >>
    ELSE IF Len(bytes) = 1
    THEN << bytes[1] \div 4, (bytes[1] % 4) * 16 >>
    ELSE IF Len(bytes) = 2
    THEN << bytes[1] \div 4,
            (bytes[1] % 4) * 16 + bytes[2] \div 16,
            (bytes[2] % 16) * 4 >>
    ELSE << bytes[1] \div 4,
            (bytes[1] % 4) * 16 + bytes[2] \div 16,
            (bytes[2] % 16) * 4 + bytes[3] \div 64,
            bytes[3] % 64 >> \o Sextets(SubSeq(bytes, 4, Len(bytes)))

\* general_purpose::URL_SAFE_NO_PAD.encode: the characters, no '=' appended.
UrlSafeNoPadChars(bytes) ==
    LET s == Sextets(bytes) IN [i \in 1..Len(s) |-> UrlSafeAlphabet[s[i] + 1]]

RECURSIVE Concat(_)
Concat(chars) ==
    IF Len(chars) = 0 THEN "" ELSE chars[1] \o Concat(Tail(chars))

\* generate_id, given the number thread_rng().gen_range(0..u32::MAX) drew.
generate_id(random_number) ==
    Concat(UrlSafeNoPadChars(U32ToString(random_number)))

\* gen_range(0..u32::MAX): the half-open range, u32::MAX itself excluded.
InGenRange(n) == U32Less(n, U32Max)

\* The numbers the generator draws in this model.
RandomDraws == { n \in {<<0, 0>>, <<65535, 65534>>} : InGenRange(n) }


(***************************************************************************)
(* Header values.  HeaderValue::to_str fails on a value holding a byte     *)
(* outside visible ASCII, and unwrap_or_default then yields "".            *)
(***************************************************************************)
\* A header value with a byte outside visible ASCII.
OpaqueBytes == "<bytes:ff>"

\* v.to_str().unwrap_or_default()
ToStrOrDefault(v) == IF v = OpaqueBytes THEN "" ELSE v

\* A header read with unwrap_or_default on the Option too: absent is "".
HeaderOption_AbsentIsEmpty(v) == IF v = Null THEN "" ELSE ToStrOrDefault(v)

\* headers.get(name).map(|v| v.to_str().unwrap_or_default().to_string())
HeaderOption(v) == IF v = Null THEN Null ELSE ToStrOrDefault(v)

\* Sha3_256 of the bytes of a string, formatted {:x} (lowercase hex).
Sha3_256_Hex(s) ==
    CASE s = "" ->
           "a7ffc6f8bf1ed76651c14756a061d662f580ff4de43b49fa82d80a4b80f8434a"
      [] s = "s3cret" ->
           "a270bf3e339703683aedc5fd5cc8024b0af5c25fae4dae4288c307bdc6e3bd1b"
      [] s = "n3wkey" ->
           "bd609e7157b7800aa484b043df694ffec92346933efed297bffad5caa426cafe"

(***************************************************************************)
(* Url::parse(..)?.to_string() on the strings the model submits and on     *)
(* the serializations it yields: the scheme and host are lowercased, an    *)
(* empty path of a special scheme becomes "/".  A string with no scheme is *)
(* a relative URL without a base, a special scheme with no host has an     *)
(* empty host: both are errors.  A non-special scheme needs no host.       *)
(***************************************************************************)
UrlParse(s) ==
    CASE s = "https://example.com/a" ->
           [ok |-> TRUE, href |-> "https://example.com/a",
            scheme |-> "https", host |-> "example.com"]
      [] s = "HTTP://EXAMPLE.com" ->
           [ok |-> TRUE, href |-> "http://example.com/",
            scheme |-> "http", host |-> "example.com"]
      [] s = "http://example.com/" ->
           [ok |-> TRUE, href |-> "http://example.com/",
            scheme |-> "http", host |-> "example.com"]
      [] s = "mailto:a@b.c" ->
           [ok |-> TRUE, href |-> "mailto:a@b.c",
            scheme |-> "mailto", host |-> Null]
      [] s = "example.com" ->
           [ok |-> FALSE, href |-> Null, scheme |-> Null, host |-> Null]
      [] s = "https://" ->
           [ok |-> FALSE, href |-> Null, scheme |-> "https", host |-> Null]

(***************************************************************************)
(* What requests carry in this model.                                      *)
(***************************************************************************)
ApiHeaders == {Null, "s3cret", "n3wkey", OpaqueBytes}
TargetUrls == {"https://example.com/a", "HTTP://EXAMPLE.com", "mailto:a@b.c",
               "example.com", "https://"}
\* A JSON body without the field targetUrl: {}.
MissingTargetUrl == "<body:{}>"
\* Bodies of create and update: {"targetUrl": u}, and the field missing.
Bodies     == {"https://example.com/a", MissingTargetUrl}
Referers   == {Null, "https://ref.example/"}
UserAgents == {Null, OpaqueBytes}
\* Path ids: every id the generator can produce here.
PathIds    == { generate_id(n) : n \in RandomDraws }

(***************************************************************************)
(* Errors and responses.                                                   *)
(***************************************************************************)
Elapsed     == "deadline has elapsed"
StoreDown   == "error communicating with database"
RowNotFound == "no rows returned by a query that expected to return at least one row"
UniqueViolation == "duplicate key value violates unique constraint"

\* utils::internal_error
\* A response: the status, the plain-text body, the Location header and the
\* JSON body (the Link, or the statistics groups) as a set of records.
Response(status, text, location, json) ==
    [status |-> status, text |-> text, location |-> location, json |-> json]

\* utils::internal_error
internal_error(err) == Response(500, err, Null, {})

Unauthorized == Response(401, "Unauthorized", Null, {})
NotFound     == Response(404, "Not Found", Null, {})
UrlMalformed == Response(409, "Url Malformed", Null, {})
\* The rejection of the Json extractor on a body without the field.
UnprocessableEntity ==
    Response(422, "Failed to deserialize the JSON body into the target type",
             Null, {})
OkJson(v)    == Response(200, Null, Null, v)
\* health_check
Healthy      == Response(200, "Service is healthy", Null, {})
\* The 307 of redirect; Cache-Control is the fixed header value.
TemporaryRedirect(target_url) == Response(307, Null, target_url, {})
\* No response yet.
NoResponse   == Response(0, Null, Null, {})


(***************************************************************************)
(* Requests and routing (main.rs).                                         *)
(***************************************************************************)
Request(method, path, id, target_url, x_api, referer, user_agent) ==
    [method |-> method, path |-> path, id |-> id, target_url |-> target_url,
     x_api |-> x_api, referer |-> referer, user_agent |-> user_agent]

NoRequest == Request(Null, Null, Null, Null, Null, Null, Null)

\* The requests of every route over the given header values, bodies and ids.
RequestsOver(keys, urls, ids, referers, agents) ==
    { Request("POST", "/create", Null, u, k, Null, Null) :
        u \in urls, k \in keys }
    \cup { Request("PATCH", "/:id", i, u, k, Null, Null) :
        i \in ids, u \in urls, k \in keys }
    \cup { Request("GET", "/:id/statistics", i, Null, k, Null, Null) :
        i \in ids, k \in keys }
    \cup { Request("GET", "/:id", i, Null, Null, f, a) :
        i \in ids, f \in referers, a \in agents }
    \cup { Request("GET", "/health", Null, Null, Null, Null, Null) }

Requests ==
    RequestsOver(ApiHeaders, TargetUrls \cup {MissingTargetUrl}, PathIds,
                 Referers, UserAgents)

\* The handler the router gives a request.
HandlerOf(req) ==
    CASE req.method = "POST"  /\ req.path = "/create"         -> "create_link"
      [] req.method = "GET"   /\ req.path = "/:id/statistics" -> "statistics"
      [] req.method = "PATCH" /\ req.path = "/:id"            -> "update_link"
      [] req.method = "GET"   /\ req.path = "/:id"            -> "redirect"
      [] req.method = "GET"   /\ req.path = "/health"         -> "health_check"

\* A router whose PATCH /:id is left outside the auth layer.
Gated_PatchOpen(req) == req.path \in {"/create", "/:id/statistics"}

\* A router whose auth layer covers every method of /:id.
Gated_EveryMethod(req) == req.path \in {"/create", "/:id/statistics", "/:id"}

\* Whether the auth middleware is layered over the request's route: the
\* route_layer after /create and /:id/statistics, and the one on patch().
Gated(req) ==
    \/ req.path \in {"/create", "/:id/statistics"}
    \/ req.path = "/:id" /\ req.method = "PATCH"

\* req.uri()
UriOf(req) ==
    CASE req.path = "/create"         -> "/create"
      [] req.path = "/:id/statistics" -> "/" \o req.id \o "/statistics"
      [] req.path = "/:id"            -> "/" \o req.id
      [] req.path = "/health"         -> "/health"

\* The label of unauthorized_calls_count: format!("{}!", req.uri())
UriLabel(req) == UriOf(req) \o "!"

\* The labels the counter can carry here.
Labels == { UriLabel(req) : req \in { q \in Requests : q.path # "/health" } }

(***************************************************************************)
(* State.                                                                  *)
(***************************************************************************)
VARIABLES
    links,                    \* table links(id, target_url)
    link_statistics,          \* table link_statistics, in insertion order
    settings,                 \* table settings(id, encrypted_global_api_key)
    unauthorized_calls_count, \* the metrics counter, by label
    task,                     \* the request each task handles and where it is
    received,                 \* requests received so far
    last_write,               \* history: the last write applied to each link id
    generator                 \* the identifier generator taken on its own

vars == <<links, link_statistics, settings, unauthorized_calls_count,
          task, received, last_write, generator>>

Link(id, target_url) == [id |-> id, target_url |-> target_url]
Click(link_id, referer, user_agent) ==
    [link_id |-> link_id, referer |-> referer, user_agent |-> user_agent]
Settings(id, key) == [id |-> id, encrypted_global_api_key |-> key]

\* The id the gate's query asks for (spelled as in the query).
SettingsId == "DEFUALT_SETTINGS"

\* The outcome of a store call: an error, or the rows returned.
Err(e)      == [err |-> e, rows |-> {}]
Rows(rows)  == [err |-> Null, rows |-> rows]
NoResult    == Rows({})

\* A write of the history: the handler that wrote and the URL it was sent.
Write(by, target_url) == [by |-> by, target_url |-> target_url]
NoWrite == Write("none", Null)

\* A task.  pc names the store call it awaits ("idle" and "done" apart, and
\* "read_body", the await of the request body) and call that call's
\* progress; pending is the store's answer on its way to
\* the task and result what the last await returned.  setting (the outcome
\* of the settings fetch), url, new_link_id and link are the locals of auth
\* and of the handlers.
\* History of the request: issued, the statements it issued; entered,
\* whether its handler was entered; clicks, the rows it added to
\* link_statistics; seen, the length of link_statistics when its statistics
\* select ran; origin, the last write of the link when its link select ran;
\* collided, whether its insert met a link of the same id.
IdleTask ==
    [pc |-> "idle", call |-> "none", req |-> NoRequest,
     pending |-> NoResult, result |-> NoResult,
     setting |-> NoResult, url |-> Null, new_link_id |-> Null, link |-> {},
     issued |-> {}, entered |-> FALSE, clicks |-> << >>, seen |-> 0,
     origin |-> NoWrite, collided |-> FALSE,
     resp |-> NoResponse]

\* The settings table as provisioned: the row the gate asks for, or only a
\* row under another id.
Provisioned == Settings(SettingsId, Sha3_256_Hex("s3cret"))
Misprovisioned == Settings("DEFAULT_SETTINGS", Sha3_256_Hex("s3cret"))

\* The generator taken on its own: a 32-bit value and, once the generator
\* has drawn and encoded it, the id.
Generator(random_number, id) == [random_number |-> random_number, id |-> id]

\* The server starts on a store holding the given links, each written by
\* the create request history names, and the given settings.
InitStore(stored_links, history, stored_settings) ==
    /\ links = stored_links
    /\ link_statistics = << >>
    /\ settings = stored_settings
    /\ unauthorized_calls_count = [l \in Labels |-> 0]
    /\ task = [t \in Tasks |-> IdleTask]
    /\ received = 0
    /\ last_write = history

InitOn(stored_links, history, stored_settings) ==
    /\ InitStore(stored_links, history, stored_settings)
    /\ generator = Generator(<<0, 0>>, Null)

(***************************************************************************)
(* The statements, as the store executes them.                             *)
(***************************************************************************)
\* fetch_one: exactly one row is expected; none is the error RowNotFound.
FetchOne(rows) == IF rows = {} THEN Err(RowNotFound) ELSE Rows(rows)

\* fetch_optional and fetch_all: the rows, possibly none.
FetchAll(rows) == Rows(rows)

\* A gate that answers from the credential read when the server started.
SelectSetting_Cached(id) == { s \in {Provisioned} : s.id = id }

\* SELECT id, encrypted_global_api_key FROM settings WHERE id = $1
SelectSetting(id) == { s \in settings : s.id = id }

\* SELECT id, target_url FROM links WHERE id = $1
SelectLink(id) == { l \in links : l.id = id }

\* The uniqueness constraint on links.id.
LinksIdTaken(id) == \E l \in links : l.id = id

\* An insert that overwrites on conflict (ON CONFLICT (id) DO UPDATE).
InsertLink_Upsert(id, target_url) ==
    [links |-> { l \in links : l.id # id } \cup {Link(id, target_url)},
     result |-> Rows({Link(id, target_url)})]

\* INSERT INTO links (id, target_url) VALUES ($1, $2) RETURNING id, target_url
InsertLink(id, target_url) ==
    IF LinksIdTaken(id)
    THEN [links |-> links, result |-> Err(UniqueViolation)]
    ELSE [links |-> links \cup {Link(id, target_url)},
          result |-> FetchOne({Link(id, target_url)})]

\* An update without its WHERE clause: every link gets the target.
UpdateLink_NoWhere(target_url, id) ==
    LET updated == { Link(l.id, target_url) : l \in SelectLink(id) }
    IN  [links |-> IF updated = {} THEN links
                   ELSE { Link(l.id, target_url) : l \in links },
         result |-> FetchOne(updated)]

\* An update that adds the new row and keeps the old one.
UpdateLink_KeepsOld(target_url, id) ==
    LET updated == { Link(l.id, target_url) : l \in SelectLink(id) }
    IN  [links |-> links \cup updated, result |-> FetchOne(updated)]

\* An update that inserts the row when no link has the id.
UpdateLink_Upsert(target_url, id) ==
    [links |-> (links \ SelectLink(id)) \cup {Link(id, target_url)},
     result |-> Rows({Link(id, target_url)})]

\* UPDATE links SET target_url = $1 WHERE id = $2 RETURNING id, target_url
UpdateLink(target_url, id) ==
    LET updated == { Link(l.id, target_url) : l \in SelectLink(id) }
    IN  [links |-> (links \ SelectLink(id)) \cup updated,
         result |-> FetchOne(updated)]

\* An insert that replaces the rows the link already has (one row a link).
InsertStatistic_Upsert(link_id, referer, user_agent) ==
    Append(SelectSeq(link_statistics, LAMBDA c : c.link_id # link_id),
           Click(link_id, referer, user_agent))

\* INSERT INTO link_statistics(link_id, referer, user_agent) VALUES ($1, $2, $3)
InsertStatistic(link_id, referer, user_agent) ==
    Append(link_statistics, Click(link_id, referer, user_agent))

\* A grouped select whose HAVING clause is missing: every link's events.
SelectStatistics_NoHaving(link_id) ==
    LET groups == { link_statistics[i] : i \in DOMAIN link_statistics }
    IN  { [amount |-> Cardinality({ i \in DOMAIN link_statistics :
                                      link_statistics[i] = g }),
           referer |-> g.referer, user_agent |-> g.user_agent] :
          g \in groups }

\* SELECT COUNT(*) AS amount, referer, user_agent FROM link_statistics
\* GROUP BY link_id, referer, user_agent HAVING link_id = $1
SelectStatistics(link_id) ==
    LET groups == { link_statistics[i] : i \in DOMAIN link_statistics }
    IN  { [amount |-> Cardinality({ i \in DOMAIN link_statistics :
                                      link_statistics[i] = g }),
           referer |-> g.referer, user_agent |-> g.user_agent] :
          g \in { h \in groups : h.link_id = link_id } }

(***************************************************************************)
(* The handlers, from one await to the next.  Each step yields the task's  *)
(* next record; r.result is what the await returned.                       *)
(***************************************************************************)
\* The task returns resp to the client.
Reply(r, resp) == [r EXCEPT !.pc = "done", !.call = "none", !.resp = resp]

\* The task issues a store call under tokio::time::timeout and awaits it.
Issue(r, stmt) ==
    [r EXCEPT !.pc = stmt, !.call = "sent", !.pending = NoResult,
              !.issued = @ \cup {stmt}]

\* .await.map_err(internal_error)?.map_err(internal_error)?
Failed(res) == res.err # Null

\* health_check
health_check(r) == Reply(r, Healthy)

\* redirect, to the await of the link select.
redirect_begin(r) == Issue(r, "select_link")

\* A redirect that records the click before it checks that the link exists.
redirect_selected_ClickFirst(r) ==
    IF Failed(r.result) THEN Reply(r, internal_error(r.result.err))
    ELSE Issue([r EXCEPT !.link = r.result.rows], "insert_statistic")

\* redirect, from the link select to the await of the statistics insert.
redirect_selected(r) ==
    IF Failed(r.result) THEN Reply(r, internal_error(r.result.err))
    ELSE IF r.result.rows = {} THEN Reply(r, NotFound)
    ELSE Issue([r EXCEPT !.link = r.result.rows], "insert_statistic")

\* A redirect that propagates the failure of the statistics insert.
redirect_respond_Propagate(r) ==
    IF Failed(r.result) THEN Reply(r, internal_error(r.result.err))
    ELSE Reply(r, TemporaryRedirect((CHOOSE l \in r.link : TRUE).target_url))

\* redirect, from the statistics insert on: saved_statistics (r.result) is
\* only logged.
redirect_respond(r) ==
    Reply(r, TemporaryRedirect((CHOOSE l \in r.link : TRUE).target_url))

\* A create_link that stores the URL as submitted.
create_link_begin_RawUrl(r, n) ==
    IF ~UrlParse(r.req.target_url).ok THEN Reply(r, UrlMalformed)
    ELSE Issue([r EXCEPT !.url = r.req.target_url,
                         !.new_link_id = generate_id(n)], "insert_link")

\* create_link, to the await of the insert; n is the number generate_id draws.
create_link_begin(r, n) ==
    LET parsed == UrlParse(r.req.target_url)
    IN  IF ~parsed.ok THEN Reply(r, UrlMalformed)
        ELSE Issue([r EXCEPT !.url = parsed.href,
                             !.new_link_id = generate_id(n)], "insert_link")

\* create_link, from the insert on.
create_link_inserted(r) ==
    IF Failed(r.result) THEN Reply(r, internal_error(r.result.err))
    ELSE Reply(r, OkJson(r.result.rows))

\* An update_link that does not validate the URL.
update_link_begin_NoValidation(r) ==
    Issue([r EXCEPT !.url = r.req.target_url], "update_link")

\* update_link, to the await of the update.
update_link_begin(r) ==
    LET parsed == UrlParse(r.req.target_url)
    IN  IF ~parsed.ok THEN Reply(r, UrlMalformed)
        ELSE Issue([r EXCEPT !.url = parsed.href], "update_link")

\* update_link, from the update on.
update_link_updated(r) ==
    IF Failed(r.result) THEN Reply(r, internal_error(r.result.err))
    ELSE Reply(r, OkJson(r.result.rows))

\* get_link_statistics, to the await of the select.
statistics_begin(r) == Issue(r, "select_statistics")

\* get_link_statistics, from the select on.
statistics_selected(r) ==
    IF Failed(r.result) THEN Reply(r, internal_error(r.result.err))
    ELSE Reply(r, OkJson(r.result.rows))

\* The Json<LinkTarget> extractor of create_link and update_link awaits the
\* request body, under no timeout, before the handler's body runs.
AwaitBody(r) == [r EXCEPT !.pc = "read_body", !.call = "reading"]

\* Json<LinkTarget>: the body deserialized, or the extractor's rejection.
JsonLinkTarget(body) ==
    IF body = MissingTargetUrl
    THEN [ok |-> FALSE, target_url |-> Null]
    ELSE [ok |-> TRUE, target_url |-> body]

\* The body has arrived: the extractor rejects it, or the handler's body
\* runs to its first await; n is the number generate_id draws.
json_extracted(r, n) ==
    IF ~JsonLinkTarget(r.req.target_url).ok THEN Reply(r, UnprocessableEntity)
    ELSE IF HandlerOf(r.req) = "create_link" THEN create_link_begin(r, n)
    ELSE update_link_begin(r)

\* The router hands the request to its handler (next.run(req) in auth):
\* the extractors of the handler's signature, then its body.
next_run(r) ==
    LET e == [r EXCEPT !.entered = TRUE]
        h == HandlerOf(r.req)
    IN  CASE h = "create_link"  -> AwaitBody(e)
          [] h = "update_link"  -> AwaitBody(e)
          [] h = "statistics"   -> statistics_begin(e)
          [] h = "redirect"     -> redirect_begin(e)
          [] h = "health_check" -> health_check(e)

(***************************************************************************)
(* The credential gate (auth.rs).                                          *)
(***************************************************************************)
\* The x-api header is absent: rejected before any store call.
auth_no_header(r) == r.req.x_api = Null

\* auth, to the await of the settings fetch.
auth_begin(r) ==
    IF auth_no_header(r) THEN Reply(r, Unauthorized)
    ELSE Issue(r, "fetch_setting")

\* setting.encrypted_global_api_key != format!("{provided_api_key:x}")
auth_mismatch(setting, x_api) ==
    setting.encrypted_global_api_key # Sha3_256_Hex(ToStrOrDefault(x_api))

\* Whether auth, resumed with the fetch's outcome, rejects as Unauthorized.
auth_rejects(r) ==
    /\ ~Failed(r.result)
    /\ auth_mismatch(CHOOSE s \in r.result.rows : TRUE, r.req.x_api)

\* A gate that lets a request through when the settings fetch timed out.
auth_fetched_FailOpen(r) ==
    LET f == [r EXCEPT !.setting = r.result]
    IN  IF Failed(r.result) /\ r.result.err = Elapsed THEN next_run(f)
        ELSE IF Failed(r.result) THEN Reply(f, internal_error(r.result.err))
        ELSE IF auth_rejects(r) THEN Reply(f, Unauthorized)
        ELSE next_run(f)

\* auth, from the settings fetch on.
auth_fetched(r) ==
    LET f == [r EXCEPT !.setting = r.result]
    IN  IF Failed(r.result) THEN Reply(f, internal_error(r.result.err))
        ELSE IF auth_rejects(r) THEN Reply(f, Unauthorized)
        ELSE next_run(f)

\* A counter that is set to one instead of incremented.
Increment_SetToOne(label) ==
    [unauthorized_calls_count EXCEPT ![label] = 1]

\* counter!("unauthorized_calls_count", &labels).increment(1)
Increment(label) ==
    [unauthorized_calls_count EXCEPT ![label] = @ + 1]

(***************************************************************************)
(* Actions.                                                                *)
(***************************************************************************)
\* A request arrives and its task runs to its first await: through the
\* gate's header check when the route is gated, into the handler otherwise.
Receive(t, requests) ==
    /\ task[t].pc \in {"idle", "done"}
    /\ received < MaxRequests
    /\ \E req \in requests :
        LET r == [IdleTask EXCEPT !.req = req]
        IN  /\ task' = [task EXCEPT ![t] =
                           IF Gated(req) THEN auth_begin(r) ELSE next_run(r)]
            /\ unauthorized_calls_count' =
                 IF Gated(req) /\ auth_no_header(r)
                 THEN Increment(UriLabel(req))
                 ELSE unauthorized_calls_count
    /\ received' = received + 1
    /\ UNCHANGED <<links, link_statistics, settings, last_write, generator>>

\* What the store returns for the statement task record r awaits.
Execute(r) ==
    CASE r.pc = "fetch_setting"     -> FetchOne(SelectSetting(SettingsId))
      [] r.pc = "select_link"       -> FetchAll(SelectLink(r.req.id))
      [] r.pc = "insert_statistic"  -> NoResult
      [] r.pc = "insert_link"       -> InsertLink(r.new_link_id, r.url).result
      [] r.pc = "update_link"       -> UpdateLink(r.url, r.req.id).result
      [] r.pc = "select_statistics" -> FetchAll(SelectStatistics(r.req.id))

\* The links table after the statement task record r awaits.
ExecuteLinks(r) ==
    CASE r.pc = "insert_link" -> InsertLink(r.new_link_id, r.url).links
      [] r.pc = "update_link" -> UpdateLink(r.url, r.req.id).links
      [] OTHER                -> links

\* The link_statistics table after the statement task record r awaits.
ExecuteStatistics(r) ==
    IF r.pc = "insert_statistic"
    THEN InsertStatistic(r.req.id, HeaderOption(r.req.referer),
                         HeaderOption(r.req.user_agent))
    ELSE link_statistics

\* The history after the store ran the statement of task record r.
Recorded(r, res) ==
    CASE r.pc = "insert_link" /\ ~Failed(res) ->
           [last_write EXCEPT ![r.new_link_id] = Write("create", r.req.target_url)]
      [] r.pc = "update_link" /\ ~Failed(res) ->
           [last_write EXCEPT ![r.req.id] = Write("update", r.req.target_url)]
      [] OTHER -> last_write

\* The store runs the statement a task awaits.
StoreExecutes(t) ==
    /\ task[t].call = "sent"
    /\ LET r == task[t]
       IN  /\ links' = ExecuteLinks(r)
           /\ link_statistics' = ExecuteStatistics(r)
           /\ last_write' = Recorded(r, Execute(r))
           /\ task' = [task EXCEPT ![t] =
                [r EXCEPT
                   !.call = "executed",
                   !.pending = Execute(r),
                   !.clicks = @ \o SubSeq(link_statistics',
                                          Len(link_statistics) + 1,
                                          Len(link_statistics')),
                   !.seen = IF r.pc = "select_statistics"
                            THEN Len(link_statistics) ELSE @,
                   !.origin = IF r.pc = "select_link"
                              THEN last_write[r.req.id] ELSE @,
                   !.collided = IF r.pc = "insert_link"
                                THEN \E l \in links : l.id = r.new_link_id
                                ELSE @]]
    /\ UNCHANGED <<settings, unauthorized_calls_count, received, generator>>

\* The store fails the statement a task awaits: nothing is written.
StoreFails(t) ==
    /\ task[t].call = "sent"
    /\ task' = [task EXCEPT ![t] =
                  [@ EXCEPT !.call = "executed", !.pending = Err(StoreDown)]]
    /\ UNCHANGED <<links, link_statistics, settings,
                   unauthorized_calls_count, received, last_write, generator>>

\* The task's next record once its await has returned r.result.
Step(r) ==
    CASE r.pc = "fetch_setting"     -> auth_fetched(r)
      [] r.pc = "select_link"       -> redirect_selected(r)
      [] r.pc = "insert_statistic"  -> redirect_respond(r)
      [] r.pc = "insert_link"       -> create_link_inserted(r)
      [] r.pc = "update_link"       -> update_link_updated(r)
      [] r.pc = "select_statistics" -> statistics_selected(r)

\* The task runs from the await that returned res to its next await.
Continue(t, res) ==
    LET r == [task[t] EXCEPT !.result = res]
    IN  /\ task' = [task EXCEPT ![t] = Step(r)]
        /\ unauthorized_calls_count' =
             IF r.pc = "fetch_setting" /\ auth_rejects(r)
             THEN Increment(UriLabel(r.req))
             ELSE unauthorized_calls_count
        /\ UNCHANGED <<links, link_statistics, settings, received, last_write,
                       generator>>

\* The request body reaches the task that awaits it.
BodyRead(t) ==
    /\ task[t].pc = "read_body"
    /\ task' \in { [task EXCEPT ![t] = json_extracted(task[t], n)] :
                    n \in RandomDraws }
    /\ UNCHANGED <<links, link_statistics, settings, unauthorized_calls_count,
                   received, last_write, generator>>

\* The statement's outcome reaches the task within the timeout.
Resumes(t) ==
    /\ task[t].call = "executed"
    /\ Continue(t, task[t].pending)

\* A timeout that can fire only once the store has answered the call.
TimeoutFires_AfterAnswer(t) ==
    /\ task[t].call = "executed"
    /\ Continue(t, Err(Elapsed))

\* The 300ms timeout fires first: the task gives the call up, whether or
\* not the store has run the statement by then.
TimeoutFires(t) ==
    /\ task[t].call \in {"sent", "executed"}
    /\ Continue(t, Err(Elapsed))

\* The stored credential is replaced out of band.
RotateKey ==
    /\ \E s \in settings : s.encrypted_global_api_key = Sha3_256_Hex("s3cret")
    /\ settings' = { Settings(s.id, Sha3_256_Hex("n3wkey")) : s \in settings }
    /\ UNCHANGED <<links, link_statistics, unauthorized_calls_count, task,
                   received, last_write, generator>>

\* generate_id on its own: the generator draws the value, which it can only
\* when the value lies in the range of gen_range, and encodes it.
GenerateId ==
    /\ generator.id = Null
    /\ InGenRange(generator.random_number)
    /\ generator' = [generator EXCEPT !.id = generate_id(generator.random_number)]
    /\ UNCHANGED <<links, link_statistics, settings, unauthorized_calls_count,
                   task, received, last_write>>

(***************************************************************************)
(* Specifications.  Spec takes every request of the model, one request at  *)
(* a time.  The others run two tasks concurrently, each over the requests  *)
(* of one part of the service.                                             *)
(***************************************************************************)
\* Links that create requests of the model leave in the store.
StoredId1 == generate_id(<<0, 0>>)
StoredId2 == generate_id(<<65535, 65534>>)
StoredLink1 == Link(StoredId1, "http://example.com/")
StoredLink2 == Link(StoredId2, "https://example.com/a")

NoHistory == [i \in PathIds |-> NoWrite]
StoredHistory(stored_links) ==
    [i \in PathIds |->
       IF StoredLink1 \in stored_links /\ i = StoredId1
       THEN Write("create", "HTTP://EXAMPLE.com")
       ELSE IF StoredLink2 \in stored_links /\ i = StoredId2
       THEN Write("create", "https://example.com/a")
       ELSE NoWrite]

Init ==
    \E s \in {Provisioned, Misprovisioned} : InitOn({}, NoHistory, {s})

Next ==
    \/ Receive("t1", Requests)
    \/ BodyRead("t1")
    \/ StoreExecutes("t1")
    \/ StoreFails("t1")
    \/ Resumes("t1")
    \/ TimeoutFires("t1")
    \/ RotateKey

Spec == Init /\ [][Next]_vars

\* The credential gate: every route, every x-api value, one body.
GateRequests ==
    RequestsOver(ApiHeaders, {"https://example.com/a"}, {StoredId1},
                 {Null}, {Null})

InitGate ==
    \E s \in {Provisioned, Misprovisioned} : InitOn({}, NoHistory, {s})

NextGate ==
    \/ \E t \in Tasks : Receive(t, GateRequests)
    \/ \E t \in Tasks : BodyRead(t)
    \/ \E t \in Tasks : StoreExecutes(t)
    \/ \E t \in Tasks : StoreFails(t)
    \/ \E t \in Tasks : Resumes(t)
    \/ \E t \in Tasks : TimeoutFires(t)
    \/ RotateKey

SpecGate == InitGate /\ [][NextGate]_vars

\* The credential gate, one request at a time: the task that takes a step
\* is then the only one.
SerialRequests ==
    RequestsOver(ApiHeaders, Bodies, {StoredId1}, {Null}, {Null})

NextGateSerial ==
    \/ Receive("t1", SerialRequests)
    \/ BodyRead("t1")
    \/ StoreExecutes("t1")
    \/ StoreFails("t1")
    \/ Resumes("t1")
    \/ TimeoutFires("t1")
    \/ RotateKey

SpecGateSerial == InitGate /\ [][NextGateSerial]_vars

\* The link table: create, update and redirect with the stored credential.
LinkUrls == TargetUrls \ {"https://example.com/a"}
LinkRequests ==
    { q \in RequestsOver({"s3cret"}, LinkUrls, PathIds, {Null}, {Null}) :
        q.path \in {"/create", "/:id"} }

InitLinks == InitOn({}, NoHistory, {Provisioned})

NextLinks ==
    \/ \E t \in Tasks : Receive(t, LinkRequests)
    \/ \E t \in Tasks : BodyRead(t)
    \/ \E t \in Tasks : StoreExecutes(t)
    \/ \E t \in Tasks : StoreFails(t)
    \/ \E t \in Tasks : Resumes(t)
    \/ \E t \in Tasks : TimeoutFires(t)

SpecLinks == InitLinks /\ [][NextLinks]_vars

\* The click statistics: redirect (with at most one of the two headers) and
\* statistics over stored links.
ClickRequests ==
    { q \in RequestsOver({"s3cret"}, {Null}, PathIds, Referers, UserAgents) :
        /\ q.path \in {"/:id", "/:id/statistics"} /\ q.method = "GET"
        /\ q.referer = Null \/ q.user_agent = Null }

InitClicks ==
    \E l \in {{StoredLink1}, {StoredLink1, StoredLink2}} :
        InitOn(l, StoredHistory(l), {Provisioned})

NextClicks ==
    \/ \E t \in Tasks : Receive(t, ClickRequests)
    \/ \E t \in Tasks : StoreExecutes(t)
    \/ \E t \in Tasks : StoreFails(t)
    \/ \E t \in Tasks : Resumes(t)
    \/ \E t \in Tasks : TimeoutFires(t)

SpecClicks == InitClicks /\ [][NextClicks]_vars

\* The routes outside the gate, and PATCH on the path of redirect, over a
\* stored link, with and without a settings row the gate can read.
OpenRequests ==
    { q \in RequestsOver({Null, "s3cret"}, Bodies, PathIds, {Null}, {Null}) :
        q.path \in {"/:id", "/health"} }

InitOpen ==
    \E s \in {Provisioned, Misprovisioned} :
        InitOn({StoredLink1}, StoredHistory({StoredLink1}), {s})

NextOpen ==
    \/ \E t \in Tasks : Receive(t, OpenRequests)
    \/ \E t \in Tasks : BodyRead(t)
    \/ \E t \in Tasks : StoreExecutes(t)
    \/ \E t \in Tasks : StoreFails(t)
    \/ \E t \in Tasks : Resumes(t)
    \/ \E t \in Tasks : TimeoutFires(t)

SpecOpen == InitOpen /\ [][NextOpen]_vars

\* Every store call of the service, where the timer of each call in flight
\* eventually fires unless the call returns first; nothing is assumed of
\* the store, which may leave every statement unanswered, nor of the
\* clients, whose request bodies may never arrive.
LiveRequests ==
    RequestsOver({"s3cret"}, Bodies, {StoredId1}, {Null}, {Null})

InitLive == InitOn({StoredLink1}, StoredHistory({StoredLink1}), {Provisioned})

NextLive ==
    \/ \E t \in Tasks : Receive(t, LiveRequests)
    \/ \E t \in Tasks : BodyRead(t)
    \/ \E t \in Tasks : StoreExecutes(t)
    \/ \E t \in Tasks : StoreFails(t)
    \/ \E t \in Tasks : Resumes(t)
    \/ \E t \in Tasks : TimeoutFires(t)

SpecLive ==
    /\ InitLive /\ [][NextLive]_vars
    /\ \A t \in Tasks : WF_vars(TimeoutFires(t))

\* The identifier generator over 32-bit values of every decimal length,
\* the least and the greatest included.
U32Samples ==
    { <<hi, lo>> : hi \in {0, 1, 152, 1526, 65535},
                   lo \in {0, 1, 9, 10, 62, 63, 99, 100, 999, 1000, 9999,
                           10000, 65534, 65535} }

InitIds ==
    /\ InitStore({}, NoHistory, {Provisioned})
    /\ \E n \in U32Samples : generator = Generator(n, Null)

NextIds == GenerateId

SpecIds == InitIds /\ [][NextIds]_vars


(***************************************************************************)
(* Properties.                                                             *)
(***************************************************************************)
\* The privileged endpoints: POST /create, PATCH /:id, GET /:id/statistics.
Privileged(req) ==
    <<req.method, req.path>> \in
        { <<"POST", "/create">>, <<"PATCH", "/:id">>,
          <<"GET", "/:id/statistics">> }

\* The secrets whose digests the settings table holds in this model.
Secrets == {"s3cret", "n3wkey"}

\* The x-api value of r is a secret whose SHA3-256 hex digest is the key of
\* the settings row the gate fetched for r.
DigestMatches(r) ==
    \E s \in r.setting.rows :
        /\ r.req.x_api \in Secrets
        /\ Sha3_256_Hex(r.req.x_api) = s.encrypted_global_api_key

\* C1: a request to a privileged endpoint without x-api is answered
\* Unauthorized before any store call; one whose x-api digest differs from
\* the fetched encryptedGlobalApiKey is answered Unauthorized; in both cases
\* the handler is not entered and no statement on links or link_statistics
\* is issued.  When the digest equals the stored value the handler is
\* entered.
Thm_C1_GateRejectsOrPasses ==
    \A t \in Tasks :
        LET r == task[t]
        IN  Privileged(r.req) =>
              /\ r.req.x_api = Null =>
                   /\ r.pc = "done" /\ r.resp = Unauthorized
                   /\ ~r.entered /\ r.issued = {}
              /\ (r.req.x_api # Null /\ r.setting.rows # {} /\ ~DigestMatches(r)) =>
                   /\ r.pc = "done" /\ r.resp = Unauthorized
                   /\ ~r.entered /\ r.issued = {"fetch_setting"}
              /\ (r.req.x_api # Null /\ r.setting.rows # {} /\ DigestMatches(r)) =>
                   r.entered
              /\ ~r.entered => r.issued \subseteq {"fetch_setting"}

\* One task was rejected for a wrong secret on PATCH, the other let through
\* with the right one.
Wit_C1_RejectedAndPassed ==
    \E t, u \in Tasks :
        /\ task[t].req.method = "PATCH" /\ task[t].req.x_api # Null
        /\ task[t].setting.rows # {} /\ ~DigestMatches(task[t])
        /\ task[t].resp = Unauthorized
        /\ Privileged(task[u].req) /\ DigestMatches(task[u])
        /\ task[u].entered /\ task[u].resp.status = 200

\* C2: when the settings fetch times out, fails in the store or finds no
\* row, the request is answered Internal Error and the gated handler is not
\* entered, whatever secret was presented.
Thm_C2_GateFailsClosed ==
    /\ \A t \in Tasks :
         LET r == task[t]
         IN  (Privileged(r.req) /\ Failed(r.setting)) =>
               /\ r.setting.err \in {Elapsed, StoreDown, RowNotFound}
               /\ r.pc = "done"
               /\ r.resp.status = 500 /\ r.resp.text = r.setting.err
               /\ ~r.entered /\ r.issued = {"fetch_setting"}
    /\ (\A s \in settings : s.id # SettingsId) =>
         \A t \in Tasks : Privileged(task[t].req) => ~task[t].entered

\* The right secret met a missing settings row in one task and a timeout of
\* the fetch in the other.
Wit_C2_RightSecretFailedClosed ==
    \E t, u \in Tasks :
        /\ Privileged(task[t].req) /\ task[t].req.x_api = "s3cret"
        /\ task[t].setting = Err(RowNotFound) /\ task[t].resp.status = 500
        /\ Privileged(task[u].req) /\ task[u].req.x_api = "s3cret"
        /\ task[u].setting = Err(Elapsed) /\ task[u].resp.status = 500


IsCreate(req)   == req.method = "POST" /\ req.path = "/create"
IsUpdate(req)   == req.method = "PATCH" /\ req.path = "/:id"
IsRedirect(req) == req.method = "GET" /\ req.path = "/:id"
IsStatistics(req) == req.method = "GET" /\ req.path = "/:id/statistics"

\* C3: a redirect whose lookup ran while the link's last write was a
\* create(u) answers 307 with Location the normalized form of u, unless the
\* lookup timed out; and a create answered 200 returns the generated id with
\* the normalized form of the URL it was sent.
Thm_C3_CreateThenRedirect ==
    \A t \in Tasks :
        LET r == task[t]
        IN  /\ (IsRedirect(r.req) /\ r.pc = "done" /\ r.origin.by = "create") =>
                 \/ /\ r.resp.status = 307
                    /\ r.resp.location = UrlParse(r.origin.target_url).href
                 \/ /\ r.resp = internal_error(Elapsed)
                    /\ "insert_statistic" \notin r.issued
            /\ (IsCreate(r.req) /\ r.pc = "done" /\ r.resp.status = 200) =>
                 /\ r.resp.json =
                      {Link(r.new_link_id, UrlParse(r.req.target_url).href)}
                 /\ r.new_link_id \in PathIds

\* A create of "HTTP://EXAMPLE.com" was answered 200 and a redirect of the id
\* it returned was answered 307 to "http://example.com/".
Wit_C3_RedirectedToNormalized ==
    \E t, u \in Tasks :
        /\ IsCreate(task[t].req) /\ task[t].req.target_url = "HTTP://EXAMPLE.com"
        /\ task[t].resp.status = 200
        /\ IsRedirect(task[u].req) /\ task[u].req.id = task[t].new_link_id
        /\ task[u].origin = Write("create", "HTTP://EXAMPLE.com")
        /\ task[u].resp.status = 307
        /\ task[u].resp.location = "http://example.com/"

\* The strings of the model with no scheme or, for https, no host.
MalformedUrls == {"example.com", "https://"}

\* C7: create and update of a malformed URL answer 409 "Url Malformed"
\* without generating an id and without issuing any statement on links.
Thm_C7_MalformedNeverReachesStore ==
    \A t \in Tasks :
        LET r == task[t]
        IN  ((IsCreate(r.req) \/ IsUpdate(r.req)) /\ r.entered
             /\ r.req.target_url \in MalformedUrls) =>
              /\ r.pc \in {"read_body", "done"}
              /\ r.pc = "done" =>
                   r.resp.status = 409 /\ r.resp.text = "Url Malformed"
              /\ r.new_link_id = Null
              /\ r.issued = {"fetch_setting"}
              /\ r.url = Null

\* A create of "example.com" and an update of an existing link to
\* "https://" were both answered 409, the link unchanged.
Wit_C7_BothRejected ==
    \E t, u \in Tasks :
        /\ IsCreate(task[t].req) /\ task[t].req.target_url = "example.com"
        /\ task[t].resp.status = 409
        /\ IsUpdate(task[u].req) /\ task[u].req.target_url = "https://"
        /\ task[u].resp.status = 409
        /\ \E l \in links : l.id = task[u].req.id

\* C8: every stored targetUrl is a normalized absolute URL with a scheme
\* and a host.
Cex_C8_TargetUrlHasSchemeAndHost ==
    \A l \in links :
        /\ UrlParse(l.target_url).ok
        /\ UrlParse(l.target_url).href = l.target_url
        /\ UrlParse(l.target_url).scheme # Null
        /\ UrlParse(l.target_url).host # Null

\* C9: link ids are unique; the table holds for each link what the last
\* write the store accepted wrote; and a create whose generated id met an
\* existing link is failed by the store and answered Internal Error.
Thm_C9_CollisionNeverOverwrites ==
    /\ \A l1, l2 \in links : l1.id = l2.id => l1 = l2
    /\ \A l \in links :
         /\ last_write[l.id] # NoWrite
         /\ l.target_url = UrlParse(last_write[l.id].target_url).href
    /\ \A t \in Tasks :
         LET r == task[t]
         IN  r.collided =>
               /\ IsCreate(r.req)
               /\ r.call = "executed" => r.pending = Err(UniqueViolation)
               /\ r.pc = "done" =>
                    /\ r.resp.status = 500 /\ r.resp.json = {}
                    /\ r.resp.text \in {UniqueViolation, Elapsed}

\* A create drew the id of an existing link with another target: it was
\* answered Internal Error and the link kept its target.
Wit_C9_CollidedCreateFailed ==
    \E t \in Tasks :
        /\ task[t].collided /\ task[t].pc = "done"
        /\ task[t].resp = internal_error(UniqueViolation)
        /\ \E l \in links :
             l.id = task[t].new_link_id /\ l.target_url # task[t].url


\* The row (i, referer, userAgent) of a redirect request: a column is null
\* exactly when its header is absent, and the header's text when it has one.
IsClickOf(row, req) ==
    /\ row.link_id = req.id
    /\ (row.referer = Null) <=> (req.referer = Null)
    /\ (row.user_agent = Null) <=> (req.user_agent = Null)
    /\ req.referer \notin {Null, OpaqueBytes} => row.referer = req.referer
    /\ req.user_agent \notin {Null, OpaqueBytes} => row.user_agent = req.user_agent

\* The rows of link_statistics.
ClickRows == { link_statistics[i] : i \in DOMAIN link_statistics }

\* C4, as claimed: a redirect answered 307 has added exactly one row
\* (i, referer, userAgent) to link_statistics.
Cex_C4_ExactlyOneClick ==
    \A t \in Tasks :
        LET r == task[t]
        IN  (IsRedirect(r.req) /\ r.pc = "done" /\ r.resp.status = 307) =>
              /\ Len(r.clicks) = 1
              /\ IsClickOf(r.clicks[1], r.req)

\* C4, amended: a redirect answered 307 has added at most one row to
\* link_statistics, a row (i, referer, userAgent) with null for an absent
\* header: exactly one when the insert succeeded, none when the store
\* failed it, none or one when it timed out.
Thm_C4_AtMostOneClick ==
    \A t \in Tasks :
        LET r == task[t]
        IN  (IsRedirect(r.req) /\ r.pc = "done" /\ r.resp.status = 307) =>
              /\ Len(r.clicks) <= 1
              /\ \A i \in DOMAIN r.clicks :
                   IsClickOf(r.clicks[i], r.req) /\ r.clicks[i] \in ClickRows
              /\ ~Failed(r.result) => Len(r.clicks) = 1
              /\ r.result = Err(StoreDown) => Len(r.clicks) = 0
              /\ Failed(r.result) => r.result.err \in {StoreDown, Elapsed}

\* A redirect without headers was answered 307 and added its row with both
\* columns null; another was answered 307 though the store failed its insert.
Wit_C4_OneClickAndNone ==
    \E t, u \in Tasks :
        /\ IsRedirect(task[t].req) /\ task[t].resp.status = 307
        /\ task[t].clicks = <<Click(task[t].req.id, Null, Null)>>
        /\ IsRedirect(task[u].req) /\ task[u].resp.status = 307
        /\ task[u].result = Err(StoreDown) /\ task[u].clicks = << >>

\* C5: once the lookup found the link, the redirect is answered 307 with
\* Location the stored target URL, whatever the outcome of the statistics
\* insert.
Thm_C5_StatisticsFailureSuppressed ==
    \A t \in Tasks :
        LET r == task[t]
        IN  (IsRedirect(r.req) /\ r.link # {}) =>
              /\ r.link \subseteq links
              /\ \/ r.pc = "insert_statistic"
                 \/ /\ r.pc = "done"
                    /\ r.resp.status = 307
                    /\ \A l \in r.link : r.resp.location = l.target_url

\* Two redirects were answered 307, one after a store error of its
\* statistics insert and one after its timeout.
Wit_C5_RedirectedDespiteFailure ==
    \E t, u \in Tasks :
        /\ IsRedirect(task[t].req) /\ task[t].resp.status = 307
        /\ task[t].result = Err(StoreDown)
        /\ IsRedirect(task[u].req) /\ task[u].resp.status = 307
        /\ task[u].result = Err(Elapsed)
        /\ task[u].resp.location = "http://example.com/"

\* C6: a redirect of an id no link has is answered Not Found (Internal
\* Error if the lookup itself failed), issues no statistics insert and adds
\* no row; link_statistics holds no row for that id.
Thm_C6_NotFoundWritesNoClick ==
    \A t \in Tasks :
        LET r == task[t]
        IN  (IsRedirect(r.req) /\ \A l \in links : l.id # r.req.id) =>
              /\ r.link = {}
              /\ r.clicks = << >>
              /\ "insert_statistic" \notin r.issued
              /\ \A c \in ClickRows : c.link_id # r.req.id
              /\ r.pc = "done" =>
                   IF Failed(r.result)
                   THEN r.resp = internal_error(r.result.err)
                   ELSE r.resp.status = 404 /\ r.resp.text = "Not Found"

\* A redirect of an id without link was answered Not Found while
\* link_statistics holds the click of another link.
Wit_C6_NotFound ==
    \E t \in Tasks :
        /\ IsRedirect(task[t].req) /\ task[t].resp.status = 404
        /\ \A l \in links : l.id # task[t].req.id
        /\ Len(link_statistics) > 0

\* The events of link id among the first n rows of link_statistics.
EventsOf(id, n) == { i \in 1..n : link_statistics[i].link_id = id }

\* The events among es with the referer and user agent of row c.
SamePair(es, c) ==
    { j \in es : /\ link_statistics[j].referer = c.referer
                 /\ link_statistics[j].user_agent = c.user_agent }

\* C10: statistics of link i, answered 200, lists exactly one group per
\* (referer, userAgent) pair among the events of i the table held when the
\* select ran, with the number of those events as amount; events of other
\* links are not counted; without events the list is empty; and a select
\* that did not fail is answered 200.
Thm_C10_StatisticsGroups ==
    \A t \in Tasks :
        LET r == task[t]
            es == EventsOf(r.req.id, r.seen)
        IN  (IsStatistics(r.req) /\ r.pc = "done" /\ r.entered) =>
              /\ ~Failed(r.result) <=> r.resp.status = 200
              /\ r.resp.status = 200 =>
                   /\ \A i \in es :
                        \E g \in r.resp.json :
                            /\ g.referer = link_statistics[i].referer
                            /\ g.user_agent = link_statistics[i].user_agent
                            /\ g.amount =
                                 Cardinality(SamePair(es, link_statistics[i]))
                   /\ \A g \in r.resp.json :
                        /\ SamePair(es, g) # {}
                        /\ g.amount = Cardinality(SamePair(es, g))
                   /\ \A g, h \in r.resp.json :
                        (g.referer = h.referer /\ g.user_agent = h.user_agent)
                            => g = h

\* Two redirects of a link with the same headers, then its statistics: one
\* group of amount 2.
Wit_C10_OneGroupOfTwo ==
    \E t \in Tasks :
        /\ IsStatistics(task[t].req) /\ task[t].resp.status = 200
        /\ \E g \in task[t].resp.json : g.amount = 2
        /\ Cardinality(task[t].resp.json) = 1

\* The store ran the statement task t awaited in this step (or failed it).
Executed(t) == task[t].call = "sent" /\ task'[t].call = "executed"

\* C11: an update of an id no link has is failed by the store with "no row
\* returned", creates no link and leaves the links table as it was; the
\* request is answered Internal Error with that error (or with the timeout
\* when it fired first), never Not Found and never 200.
Thm_C11_UpdateOfMissingLink ==
    [][\A t \in Tasks :
         /\ (Executed(t) /\ task[t].pc = "update_link"
             /\ SelectLink(task[t].req.id) = {}) =>
               /\ links' = links
               /\ task'[t].pending \in {Err(RowNotFound), Err(StoreDown)}
         /\ (IsUpdate(task'[t].req) /\ task'[t].pc = "done"
             /\ task'[t].pending = Err(RowNotFound)) =>
               /\ task'[t].resp.status = 500
               /\ task'[t].resp.text \in {RowNotFound, Elapsed}
               /\ task'[t].resp.json = {}]_vars

\* An update of an id without link was answered Internal Error "no rows
\* returned" and no link has that id.
Wit_C11_MissingAnsweredInternalError ==
    \E t \in Tasks :
        /\ IsUpdate(task[t].req) /\ task[t].pc = "done"
        /\ task[t].resp = internal_error(RowNotFound)
        /\ SelectLink(task[t].req.id) = {}
        /\ links # {}

IsHealth(req) == req.method = "GET" /\ req.path = "/health"

\* C12: GET /:id and GET /health never pass through the gate: they issue no
\* settings fetch, are never answered Unauthorized and enter their handler
\* whatever the x-api header and the settings table; the health check is
\* answered 200 "Service is healthy" at once, without any store call; a
\* redirect whose lookup found the link is answered 307.  PATCH /:id enters
\* its handler only after a settings fetch whose row matched the secret.
Thm_C12_RedirectAndHealthUngated ==
    \A t \in Tasks :
        LET r == task[t]
        IN  /\ (IsRedirect(r.req) \/ IsHealth(r.req)) =>
                 /\ r.entered
                 /\ "fetch_setting" \notin r.issued
                 /\ r.setting = NoResult
                 /\ r.resp.status # 401
            /\ IsHealth(r.req) =>
                 /\ r.pc = "done" /\ r.resp = Healthy /\ r.issued = {}
            /\ (IsRedirect(r.req) /\ r.pc = "done") =>
                 \/ r.resp.status = 307 /\ r.link # {}
                 \/ r.resp = NotFound /\ r.link = {}
                 \/ /\ r.resp \in {internal_error(Elapsed),
                                    internal_error(StoreDown)}
                    /\ r.issued = {"select_link"}
            /\ (IsRedirect(r.req) /\ r.link # {} /\ r.pc = "done") =>
                 r.resp.status = 307
            /\ IsUpdate(r.req) =>
                 /\ r.req.x_api = Null => r.resp = Unauthorized /\ ~r.entered
                 /\ r.entered => "fetch_setting" \in r.issued /\ DigestMatches(r)

\* With no settings row the gate can read, a redirect of the stored link
\* without x-api was answered 307 while a PATCH of the same id with the right
\* secret was answered Internal Error by the gate.
Wit_C12_RedirectedWhereGateFails ==
    \E t, u \in Tasks :
        /\ SelectSetting(SettingsId) = {}
        /\ IsRedirect(task[t].req) /\ task[t].req.x_api = Null
        /\ task[t].resp.status = 307
        /\ IsUpdate(task[u].req) /\ task[u].req.id = task[t].req.id
        /\ task[u].req.x_api = "s3cret"
        /\ task[u].resp = internal_error(RowNotFound) /\ ~task[u].entered

\* The store calls of the service.
StoreCalls == {"fetch_setting", "insert_link", "update_link", "select_link",
               "insert_statistic", "select_statistics"}

\* C13, as claimed: every request is eventually answered, even when the
\* store never runs a statement: only the timers are assumed to fire.
Cex_C13_EveryRequestAnswered ==
    \A t \in Tasks :
        (task[t].pc \notin {"idle", "done"}) ~> (task[t].pc = "done")

\* C13, amended: a request that awaits a store call, whichever of the six,
\* does not wait on it forever, even when the store never runs the
\* statement and only the timers are assumed to fire: it is answered, or,
\* for a create or an update past the gate, it comes to await its body,
\* the one await that is under no timeout.
Thm_C13_NoWaitOnStoreCall ==
    \A t \in Tasks :
        (task[t].pc \in StoreCalls) ~> (task[t].pc \in {"done", "read_body"})

\* Two requests were answered though the store ran neither's last
\* statement: a create, its body read, gave up its insert, and a redirect
\* its statistics insert.
Wit_C13_AnsweredWithoutStore ==
    \E t, u \in Tasks :
        /\ IsCreate(task[t].req) /\ task[t].pc = "done"
        /\ "insert_link" \in task[t].issued
        /\ task[t].pending = NoResult
        /\ task[t].resp = internal_error(Elapsed)
        /\ IsRedirect(task[u].req) /\ task[u].pc = "done"
        /\ "insert_statistic" \in task[u].issued
        /\ task[u].pending = NoResult /\ task[u].result = Err(Elapsed)
        /\ task[u].resp.status = 307

\* C14: the statistics insert does not block the response of redirect: no
\* redirect whose lookup found the link is suspended on the insert with
\* its response still to be returned.
Cex_C14_ResponseNotBlockedByInsert ==
    \A t \in Tasks :
        LET r == task[t]
        IN  (IsRedirect(r.req) /\ r.link # {}) =>
              ~(r.pc = "insert_statistic" /\ r.resp = NoResponse)

\* The characters of the id of a 32-bit value.
IdChars(n) == UrlSafeNoPadChars(U32ToString(n))

\* C15: every 32-bit value can be drawn by generate_id, whose id is the
\* unpadded URL-safe base64 text of the value's decimal digits: four
\* characters for three digits, none of them '+', '/' or '='.
Cex_C15_WholeRangeUrlSafe ==
    /\ InGenRange(generator.random_number)
    /\ generator.id # Null =>
         LET chars  == IdChars(generator.random_number)
             digits == Len(U32ToString(generator.random_number))
         IN  /\ generator.id = Concat(chars)
             /\ Len(chars) = (4 * digits + 2) \div 3
             /\ \A i \in DOMAIN chars : chars[i] \notin {"+", "/", "="}

\* The store applied the update statement of task record r.
UpdateApplied(r) ==
    IsUpdate(r.req) /\ "update_link" \in r.issued /\ r.pending.rows # {}

\* C16: once the store has applied the updates of two tasks to the same id,
\* exactly one link has that id, its target is the normalized URL of the
\* update applied last, one of the two; and each update answered 200
\* returns the id with the normalized URL it was sent itself.
Thm_C16_LastWriteWins ==
    \A t, u \in Tasks :
        LET a == task[t]
            b == task[u]
            rows == SelectLink(a.req.id)
        IN  (t # u /\ UpdateApplied(a) /\ UpdateApplied(b)
             /\ a.req.id = b.req.id) =>
              /\ Cardinality(rows) = 1
              /\ last_write[a.req.id].by = "update"
              /\ last_write[a.req.id].target_url
                    \in {a.req.target_url, b.req.target_url}
              /\ \A l \in rows :
                   l.target_url = UrlParse(last_write[l.id].target_url).href
              /\ a.pc = "done" =>
                   \/ a.resp = OkJson({Link(a.req.id,
                                             UrlParse(a.req.target_url).href)})
                   \/ a.resp = internal_error(Elapsed)

\* Two updates of one link to different URLs were both answered 200, each
\* with its own URL; the link holds the URL of the second.
Wit_C16_BothAnsweredOneStored ==
    \E t, u \in Tasks :
        /\ UpdateApplied(task[t]) /\ UpdateApplied(task[u])
        /\ task[t].req.id = task[u].req.id
        /\ task[t].resp.status = 200 /\ task[u].resp.status = 200
        /\ task[t].resp.json # task[u].resp.json
        /\ task[u].resp.json = SelectLink(task[u].req.id)
        /\ last_write[task[u].req.id].target_url = task[u].req.target_url

\* The ids of the links table.
LinkIds(table) == { l.id : l \in table }

\* C17: no step removes a link id; the step in which the store applies an
\* update of id i changes the target of the link i to the URL of the
\* update and leaves every other link, the set of ids and link_statistics
\* as they were; and the links table changes only in a step in which the
\* store runs the insert of a create or the update of an update, so never
\* in a step of redirect, statistics, health or the gate.
Thm_C17_UpdateChangesTargetOnly ==
    [][/\ LinkIds(links) \subseteq LinkIds(links')
       /\ \A t \in Tasks :
            (Executed(t) /\ task[t].pc = "update_link"
             /\ ~Failed(task'[t].pending)) =>
              /\ LinkIds(links') = LinkIds(links)
              /\ \A l \in links : l.id # task[t].req.id => l \in links'
              /\ \A l \in links' :
                   IF l.id = task[t].req.id
                   THEN l.target_url = UrlParse(task[t].req.target_url).href
                   ELSE l \in links
              /\ link_statistics' = link_statistics
       /\ links' # links =>
            \E t \in Tasks :
                /\ Executed(t) /\ task[t].entered
                /\ \/ IsCreate(task[t].req) /\ task[t].pc = "insert_link"
                   \/ IsUpdate(task[t].req) /\ task[t].pc = "update_link"
      ]_vars

\* Of two links one was updated and answered 200; the other still has the
\* target its create gave it.
Wit_C17_UpdatedBesideAnother ==
    \E t \in Tasks :
        /\ IsUpdate(task[t].req) /\ task[t].resp.status = 200
        /\ task[t].resp.json \subseteq links
        /\ \E l \in links :
             /\ l.id # task[t].req.id
             /\ last_write[l.id].by = "create"
             /\ l.target_url # UrlParse(task[t].req.target_url).href

\* The settings row the gate asks for, as the table holds it now.
StoredSetting == { s \in settings : s.id = SettingsId }

\* C18: every settings fetch the store runs returns the row the table holds
\* at that moment, so after the key was replaced the new one; and a request
\* resumed with the fetched row is judged against that row alone: let
\* through when the digest of its x-api equals the row's key, answered
\* Unauthorized otherwise.
Thm_C18_JudgedAgainstStoredKey ==
    [][\A t \in Tasks :
         /\ (Executed(t) /\ task[t].pc = "fetch_setting"
             /\ task'[t].pending # Err(StoreDown)) =>
               task'[t].pending =
                 (IF StoredSetting = {} THEN Err(RowNotFound)
                  ELSE Rows(StoredSetting))
         /\ (task[t].pc = "fetch_setting" /\ task'[t].pc # "fetch_setting"
             /\ task'[t].setting.rows # {}) =>
               /\ task'[t].setting = task[t].pending
               /\ \A s \in task'[t].setting.rows :
                    IF s.encrypted_global_api_key =
                         Sha3_256_Hex(ToStrOrDefault(task[t].req.x_api))
                    THEN task'[t].entered /\ task'[t].resp.status # 401
                    ELSE task'[t].resp = Unauthorized /\ ~task'[t].entered
      ]_vars

\* After the key was replaced, the former secret was answered Unauthorized
\* and the new one let through, both judged against the new key.
Wit_C18_OldRejectedNewAccepted ==
    \E t, u \in Tasks :
        /\ \A s \in settings :
             s.encrypted_global_api_key = Sha3_256_Hex("n3wkey")
        /\ task[t].req.x_api = "s3cret" /\ task[t].setting.rows = settings
        /\ task[t].resp = Unauthorized
        /\ task[u].req.x_api = "n3wkey" /\ task[u].setting.rows = settings
        /\ task[u].entered /\ task[u].resp.status = 200

\* The tasks the gate rejects as Unauthorized in this step, under label l:
\* on the arrival of the request, or when resumed with the settings row.
RejectedNow(l) ==
    { t \in Tasks : /\ task[t].pc = "fetch_setting" \/ received' # received
                    /\ task[t].pc # "idle" \/ task'[t].pc # "idle"
                    /\ task'[t].pc = "done"
                    /\ task'[t].resp = Unauthorized
                    /\ UriLabel(task'[t].req) = l }

\* C19: in every step the counter of each label grows by the number of
\* requests of that URI the gate rejects as Unauthorized in the step, one
\* or none: so not when a request passes the gate or is answered Internal
\* Error.  Unauthorized is the answer of the gate alone, and a request
\* without x-api is rejected on arrival, no settings fetch issued.
Thm_C19_CounterCountsRejections ==
    [][/\ \A l \in Labels :
            /\ unauthorized_calls_count'[l] =
                 unauthorized_calls_count[l] + Cardinality(RejectedNow(l))
            /\ Cardinality(RejectedNow(l)) <= 1
       /\ \A t \in Tasks :
            LET r == task'[t]
            IN  /\ r.resp = Unauthorized =>
                     /\ Gated(r.req) /\ ~r.entered
                     /\ r.issued \subseteq {"fetch_setting"}
                /\ (r.pc # "idle" /\ Gated(r.req) /\ r.req.x_api = Null) =>
                     /\ r.resp = Unauthorized /\ r.pc = "done"
                     /\ r.issued = {}
                /\ (r.pc = "done" /\ r.resp.status # 401) =>
                     unauthorized_calls_count' = unauthorized_calls_count
                       \/ task'[t] = task[t]
      ]_vars

\* Of three requests of one URI two were rejected, without x-api or with a
\* wrong secret, and the last was answered Internal Error by the gate: the
\* counter of the URI is 2 and every other counter 0.
Wit_C19_TwoRejectionsCounted ==
    \E t \in Tasks :
        /\ received = 3
        /\ Gated(task[t].req) /\ task[t].resp = internal_error(StoreDown)
        /\ ~task[t].entered
        /\ \A l \in Labels :
             unauthorized_calls_count[l] =
               IF l = UriLabel(task[t].req) THEN 2 ELSE 0

\* C20: the link_id of every row of link_statistics is the id of a link;
\* no step changes or removes a row; a row is added only in the step in
\* which the store runs the statistics insert of a redirect whose own
\* lookup found the link, one row with the id of that link; and a redirect
\* whose lookup found no link, timed out or failed issues no insert.
Thm_C20_ClicksAppendOnly ==
    [][/\ \A i \in DOMAIN link_statistics' :
            link_statistics'[i].link_id \in LinkIds(links')
       /\ Len(link_statistics') >= Len(link_statistics)
       /\ SubSeq(link_statistics', 1, Len(link_statistics)) = link_statistics
       /\ link_statistics' # link_statistics =>
            /\ Len(link_statistics') = Len(link_statistics) + 1
            /\ \E t \in Tasks :
                 /\ Executed(t) /\ IsRedirect(task[t].req)
                 /\ task[t].pc = "insert_statistic"
                 /\ task[t].link # {}
                 /\ \A l \in task[t].link :
                      /\ l.id \in LinkIds(links)
                      /\ link_statistics'[Len(link_statistics')].link_id = l.id
       /\ \A t \in Tasks :
            (IsRedirect(task'[t].req) /\ task'[t].link = {}) =>
              /\ task'[t].clicks = << >>
              /\ "insert_statistic" \notin task'[t].issued
      ]_vars

\* A link has two different rows, the second added by a redirect that is
\* answered, while a redirect of an id without link was answered Not Found.
Wit_C20_SecondRowAppended ==
    \E t, u \in Tasks :
        /\ Len(link_statistics) = 2
        /\ link_statistics[1] # link_statistics[2]
        /\ link_statistics[1].link_id = link_statistics[2].link_id
        /\ task[t].clicks = <<link_statistics[2]>> /\ task[t].resp.status = 307
        /\ IsRedirect(task[u].req) /\ task[u].resp = NotFound

====
